---- MODULE Spec2Model ----
(***************************************************************************)
(* A model of micro_lang: lexer, recursive-descent parser, semantic        *)
(* analyzer with its scoped symbol table, bytecode compiler and stack VM.  *)
(*                                                                         *)
(* Source text is a sequence of one-character strings.  A 64-bit float is  *)
(* represented in sign-magnitude form by the exact rational it stands for  *)
(* (k = "num", magnitude n/d in lowest terms, sign bit neg, so that +0 and *)
(* -0 are distinct), or by an infinity (k = "inf") or NaN (k = "nan").     *)
(***************************************************************************)
EXTENDS Integers, Sequences, FiniteSets, TLC

\* ------------------------------------------------------------------------
\* Bounds of the model
\* ------------------------------------------------------------------------
\* largest number of generated statements in a generated program
MaxStmts == 2

\* largest literal used by the generated programs
MaxNum == 2

\* deepest scope nesting explored for the symbol table
MaxScope == 2

\* largest number of operators in an expression tree built by the caller
MaxOps == 2

\* how many more times execute is called on a VM after its first run
MaxRuns == 2

\* longest generated text handed to the lexer alone
MaxLen == 3

\* how many next_token calls are made beyond Len(input) + 1
MaxExtraCalls == 2

\* ------------------------------------------------------------------------
\* f64 values
\* ------------------------------------------------------------------------
RECURSIVE GCD(_, _)
GCD(a, b) == IF b = 0 THEN a ELSE GCD(b, a % b)

\* a finite float: sign bit and magnitude n/d, reduced
Fin(neg, n, d) ==
    LET g == GCD(n, d)
    IN  IF n = 0 THEN [k |-> "num", neg |-> neg, n |-> 0, d |-> 1]
        ELSE [k |-> "num", neg |-> neg, n |-> n \div g, d |-> d \div g]

F(i) == IF i < 0 THEN Fin(TRUE, -i, 1) ELSE Fin(FALSE, i, 1)
Inf(neg) == [k |-> "inf", neg |-> neg, n |-> 0, d |-> 1]
NaN == [k |-> "nan", neg |-> FALSE, n |-> 0, d |-> 1]

IsZero(a) == a.k = "num" /\ a.n = 0

FNeg(a) == IF a.k = "nan" THEN a ELSE [a EXCEPT !.neg = ~a.neg]

\* a + b
FAdd(a, b) ==
    IF a.k = "nan" \/ b.k = "nan" THEN NaN
    ELSE IF a.k = "inf" /\ b.k = "inf"
         THEN IF a.neg = b.neg THEN a ELSE NaN
    ELSE IF a.k = "inf" THEN a
    ELSE IF b.k = "inf" THEN b
    ELSE IF a.neg = b.neg THEN Fin(a.neg, a.n * b.d + b.n * a.d, a.d * b.d)
    ELSE LET x == a.n * b.d
             y == b.n * a.d
         IN  IF x = y THEN Fin(FALSE, 0, 1)
             ELSE IF x > y THEN Fin(a.neg, x - y, a.d * b.d)
             ELSE Fin(b.neg, y - x, a.d * b.d)

\* a - b
FSub(a, b) == FAdd(a, FNeg(b))

\* a * b
FMul(a, b) ==
    LET s == (a.neg # b.neg)
    IN  IF a.k = "nan" \/ b.k = "nan" THEN NaN
        ELSE IF a.k = "inf" \/ b.k = "inf"
             THEN IF IsZero(a) \/ IsZero(b) THEN NaN ELSE Inf(s)
        ELSE Fin(s, a.n * b.n, a.d * b.d)

\* a / b
FDiv(a, b) ==
    LET s == (a.neg # b.neg)
    IN  IF a.k = "nan" \/ b.k = "nan" THEN NaN
        ELSE IF a.k = "inf"
             THEN IF b.k = "inf" THEN NaN ELSE Inf(s)
        ELSE IF b.k = "inf" THEN Fin(s, 0, 1)
        ELSE IF IsZero(b)
             THEN IF IsZero(a) THEN NaN ELSE Inf(s)
        ELSE Fin(s, a.n * b.d, a.d * b.n)

\* ------------------------------------------------------------------------
\* Characters
\* ------------------------------------------------------------------------
None == "None"

Digits == {"0", "1", "2", "3", "4", "5", "6", "7", "8", "9"}
Letters == {"f", "g", "x", "y", "z"}

DigitVal(c) ==
    CASE c = "0" -> 0 [] c = "1" -> 1 [] c = "2" -> 2 [] c = "3" -> 3
      [] c = "4" -> 4 [] c = "5" -> 5 [] c = "6" -> 6 [] c = "7" -> 7
      [] c = "8" -> 8 [] c = "9" -> 9

is_whitespace(c) == c \in {" ", "\n", "\t"}
is_numeric(c) == c \in Digits
is_alphabetic(c) == c \in Letters
is_alphanumeric(c) == is_alphabetic(c) \/ is_numeric(c)

\* ------------------------------------------------------------------------
\* Lexer
\* ------------------------------------------------------------------------
\* input.get(i) with a 0-based index
Get(input, i) == IF i < Len(input) THEN input[i + 1] ELSE None

Lexer_new(input) ==
    [input |-> input, position |-> 0, current_char |-> Get(input, 0)]

advance(lx) ==
    IF lx.position >= Len(lx.input)
    THEN [lx EXCEPT !.current_char = None]
    ELSE [lx EXCEPT !.position = lx.position + 1,
                    !.current_char = Get(lx.input, lx.position + 1)]

RECURSIVE skip_whitespace(_)
skip_whitespace(lx) ==
    IF lx.current_char # None /\ is_whitespace(lx.current_char)
    THEN skip_whitespace(advance(lx))
    ELSE lx

\* str::parse::<f64>() on a run of digits with at most one '.';
\* [ok |-> FALSE] when the text holds no digit at all
RECURSIVE ParseDigits(_, _, _, _, _)
ParseDigits(s, i, n, d, seen) ==
    IF i > Len(s) THEN [ok |-> seen, val |-> Fin(FALSE, n, d)]
    ELSE IF s[i] = "."
         THEN ParseDigits(s, i + 1, n, d, seen)
    ELSE IF \E j \in 1..(i - 1) : s[j] = "."
         THEN ParseDigits(s, i + 1, n * 10 + DigitVal(s[i]), d * 10, TRUE)
    ELSE ParseDigits(s, i + 1, n * 10 + DigitVal(s[i]), d, TRUE)

parse_f64(s) == ParseDigits(s, 1, 0, 1, FALSE)

\* read_number's loop, had it taken every '.' into the literal
RECURSIVE read_number_loop_every_point(_, _, _)
read_number_loop_every_point(lx, num_string, encountered_decimal) ==
    IF lx.current_char # None /\ is_numeric(lx.current_char)
    THEN read_number_loop_every_point(advance(lx),
                                      Append(num_string, lx.current_char),
                                      encountered_decimal)
    ELSE IF lx.current_char = "."
    THEN read_number_loop_every_point(advance(lx), Append(num_string, "."),
                                      TRUE)
    ELSE [str |-> num_string, lx |-> lx]

RECURSIVE read_number_loop(_, _, _)
read_number_loop(lx, num_string, encountered_decimal) ==
    IF lx.current_char # None /\ is_numeric(lx.current_char)
    THEN read_number_loop(advance(lx), Append(num_string, lx.current_char),
                          encountered_decimal)
    ELSE IF lx.current_char = "."
    THEN IF encountered_decimal
         THEN [str |-> num_string, lx |-> lx]
         ELSE read_number_loop(advance(lx), Append(num_string, "."), TRUE)
    ELSE [str |-> num_string, lx |-> lx]

\* r is what the loop left: the text read and the lexer
read_number_result(r, p) ==
    IF Len(r.str) = 0
    THEN [fault |-> TRUE, val |-> F(0), lx |-> r.lx]
    ELSE [fault |-> FALSE,
          val |-> IF p.ok THEN p.val ELSE F(0),
          lx |-> r.lx]

read_number_parse(r) == read_number_result(r, parse_f64(r.str))

read_number(lx) == read_number_parse(read_number_loop(lx, <<>>, FALSE))

RECURSIVE read_identifier_loop(_, _, _)
read_identifier_loop(lx, ident_string, first_iter) ==
    IF /\ lx.current_char # None
       /\ \/ is_alphabetic(lx.current_char)
          \/ is_numeric(lx.current_char) /\ ~first_iter
          \/ lx.current_char = "_"
    THEN read_identifier_loop(advance(lx),
                              Append(ident_string, lx.current_char), FALSE)
    ELSE [str |-> ident_string, lx |-> lx]

read_identifier_result(r) ==
    [fault |-> Len(r.str) = 0, name |-> r.str, lx |-> r.lx]

read_identifier(lx) ==
    read_identifier_result(read_identifier_loop(lx, <<>>, TRUE))

PlainChars == {"+", "-", "*", "/", "=", "(", ")", ";"}

match_plain_token(c) ==
    CASE c = "+" -> "Plus"
      [] c = "-" -> "Minus"
      [] c = "*" -> "Multiply"
      [] c = "/" -> "Divide"
      [] c = "=" -> "Assign"
      [] c = "(" -> "LParen"
      [] c = ")" -> "RParen"
      [] c = ";" -> "Semi"

Tok(type) == [type |-> type]
TNumber(v) == [type |-> "Number", val |-> v]
TIdent(name) == [type |-> "Identifier", name |-> name]

NumberToken(r) == [fault |-> r.fault, tok |-> TNumber(r.val), lx |-> r.lx]

IdentifierToken(r) == [fault |-> r.fault, tok |-> TIdent(r.name), lx |-> r.lx]

\* the match of next_token, had its first arm returned the token without
\* the call of advance
next_token_match_no_advance(lx) ==
    IF lx.current_char \in PlainChars
    THEN [fault |-> FALSE, tok |-> Tok(match_plain_token(lx.current_char)),
          lx |-> lx]
    ELSE IF /\ lx.current_char # None
            /\ (is_numeric(lx.current_char) \/ lx.current_char = ".")
    THEN NumberToken(read_number(lx))
    ELSE IF /\ lx.current_char # None
            /\ (is_alphanumeric(lx.current_char) \/ lx.current_char = "_")
    THEN IdentifierToken(read_identifier(lx))
    ELSE [fault |-> FALSE, tok |-> Tok("EoF"), lx |-> lx]

\* the match of next_token, had its last arm stepped over the character that
\* it does not know
next_token_match_steps_over(lx) ==
    IF lx.current_char \in PlainChars
    THEN [fault |-> FALSE, tok |-> Tok(match_plain_token(lx.current_char)),
          lx |-> advance(lx)]
    ELSE IF /\ lx.current_char # None
            /\ (is_numeric(lx.current_char) \/ lx.current_char = ".")
    THEN NumberToken(read_number(lx))
    ELSE IF /\ lx.current_char # None
            /\ (is_alphanumeric(lx.current_char) \/ lx.current_char = "_")
    THEN IdentifierToken(read_identifier(lx))
    ELSE [fault |-> FALSE, tok |-> Tok("EoF"), lx |-> advance(lx)]

\* the match of next_token, with lx the lexer after skip_whitespace
next_token_match(lx) ==
    IF lx.current_char \in PlainChars
    THEN [fault |-> FALSE, tok |-> Tok(match_plain_token(lx.current_char)),
          lx |-> advance(lx)]
    ELSE IF /\ lx.current_char # None
            /\ (is_numeric(lx.current_char) \/ lx.current_char = ".")
    THEN NumberToken(read_number(lx))
    ELSE IF /\ lx.current_char # None
            /\ (is_alphanumeric(lx.current_char) \/ lx.current_char = "_")
    THEN IdentifierToken(read_identifier(lx))
    ELSE [fault |-> FALSE, tok |-> Tok("EoF"), lx |-> lx]

\* the token, the lexer after the call, and whether the call panicked
next_token(lx) == next_token_match(skip_whitespace(lx))

\* ------------------------------------------------------------------------
\* AST
\* ------------------------------------------------------------------------
Number(v) == [t |-> "Number", v |-> v]
Identifier(name) == [t |-> "Identifier", name |-> name]
BinaryOp(left, op, right) ==
    [t |-> "BinaryOp", left |-> left, op |-> op, right |-> right]
Assignment(variable, value) ==
    [t |-> "Assignment", variable |-> variable, value |-> value]
Program(stmts) == [t |-> "Program", stmts |-> stmts]

NoNode == [t |-> "None"]

token_to_binary_op(token) ==
    CASE token.type = "Plus" -> [ok |-> TRUE, op |-> "Add"]
      [] token.type = "Minus" -> [ok |-> TRUE, op |-> "Subtract"]
      [] token.type = "Multiply" -> [ok |-> TRUE, op |-> "Multiply"]
      [] token.type = "Divide" -> [ok |-> TRUE, op |-> "Divide"]
      [] OTHER -> [ok |-> FALSE, op |-> "None"]

\* ------------------------------------------------------------------------
\* Parser
\* ------------------------------------------------------------------------
\* results of the parser's functions: Ok(node or token) or Err(message),
\* together with the parser after the call
POk(node, p) == [ok |-> TRUE, node |-> node, err |-> "", p |-> p]
PErr(err, p) == [ok |-> FALSE, node |-> NoNode, err |-> err, p |-> p]

\* the parser that holds the token and the lexer of r, a result of next_token
WithToken(r, fault) ==
    [lexer |-> r.lx, current_token |-> r.tok, fault |-> fault \/ r.fault]

Parser_new(lexer) == WithToken(next_token(lexer), FALSE)

parser_advance(p) == WithToken(next_token(p.lexer), p.fault)

expect_number_token(p) ==
    IF p.current_token.type = "Number"
    THEN POk(p.current_token, parser_advance(p))
    ELSE PErr("expected to be a Number", p)

expect_identifier_token(p) ==
    IF p.current_token.type = "Identifier"
    THEN POk(p.current_token, parser_advance(p))
    ELSE PErr("expected to be an Identifier", p)

expect_identifier_or_number_token(p) ==
    IF p.current_token.type = "Identifier" THEN expect_identifier_token(p)
    ELSE IF p.current_token.type = "Number" THEN expect_number_token(p)
    ELSE PErr("neither Number nor Identifier", p)

expect_operator(p) ==
    IF p.current_token.type \in {"Plus", "Minus", "Multiply", "Divide"}
    THEN POk(p.current_token, parser_advance(p))
    ELSE PErr("Expected operator", p)

expect_token(p, expected) ==
    IF p.current_token = expected
    THEN POk(expected, parser_advance(p))
    ELSE PErr("did not match expected", p)

\* Each function is written as a chain of operators, one for each point where
\* the code goes on with the result of a call: the operator takes that result
\* as its last argument.
RECURSIVE parse_primary(_), parse_factor_loop(_, _), parse_term_loop(_, _)

\* parse_factor, with l the result of its first parse_primary
parse_factor_first(l) == IF ~l.ok THEN l ELSE parse_factor_loop(l.p, l.node)

parse_factor(p) == parse_factor_first(parse_primary(p))

\* parse_term, with l the result of its first parse_factor
parse_term_first(l) == IF ~l.ok THEN l ELSE parse_term_loop(l.p, l.node)

parse_term(p) == parse_term_first(parse_factor(p))

parse_expression(p) == parse_term(p)

\* '(' expression ')': e is the result of expect_token(RParen)
parse_primary_rparen(term, e) ==
    IF ~e.ok THEN PErr(e.err, e.p) ELSE POk(term.node, e.p)

\* '(' expression: term is the result of parse_expression
parse_primary_paren(term) ==
    IF ~term.ok THEN term
    ELSE parse_primary_rparen(term, expect_token(term.p, Tok("RParen")))

\* e is the result of expect_identifier_or_number_token
parse_primary_token(e) ==
    IF ~e.ok THEN e
    ELSE IF e.node.type = "Identifier"
         THEN POk(Identifier(e.node.name), e.p)
         ELSE POk(Number(e.node.val), e.p)

parse_primary(p) ==
    IF p.current_token = Tok("LParen")
    THEN parse_primary_paren(parse_expression(parser_advance(p)))
    ELSE parse_primary_token(expect_identifier_or_number_token(p))

\* the Ok arm of parse_factor's match: b is the result of token_to_binary_op
parse_factor_fold(left, b, right) ==
    IF ~b.ok THEN PErr("not a binary operator", right.p)
    ELSE parse_factor_loop(right.p, BinaryOp(left, b.op, right.node))

\* the match on parse_primary's result right, after the operator token o
parse_factor_match(left, o, right) ==
    IF right.ok
    THEN parse_factor_fold(left, token_to_binary_op(o.node), right)
    ELSE POk(left, right.p)

\* o is the result of expect_operator
parse_factor_operator(left, o) ==
    IF ~o.ok THEN PErr(o.err, o.p)
    ELSE parse_factor_match(left, o, parse_primary(o.p))

\* parse_factor's loop, had it also taken '+' and '-' for its operators
parse_factor_loop_all_operators(p, left) ==
    IF p.current_token.type \in {"Multiply", "Divide", "Plus", "Minus"}
    THEN parse_factor_operator(left, expect_operator(p))
    ELSE POk(left, p)

\* the while loop of parse_factor, with the expression built so far
parse_factor_loop(p, left) ==
    IF p.current_token.type \in {"Multiply", "Divide"}
    THEN parse_factor_operator(left, expect_operator(p))
    ELSE POk(left, p)

\* parse_term's fold, had it folded to the right: the rest of the chain
\* becomes the right child of the new node
parse_term_fold_rest(left, b, rest) ==
    IF ~rest.ok THEN rest ELSE POk(BinaryOp(left, b.op, rest.node), rest.p)

parse_term_fold_right(left, b, right) ==
    IF ~b.ok THEN PErr("not a binary operator", right.p)
    ELSE parse_term_fold_rest(left, b, parse_term_loop(right.p, right.node))

\* the Ok arm of parse_term's match: b is the result of token_to_binary_op
parse_term_fold(left, b, right) ==
    IF ~b.ok THEN PErr("not a binary operator", right.p)
    ELSE parse_term_loop(right.p, BinaryOp(left, b.op, right.node))

\* parse_term's match, had it passed the operand's error on to the caller
parse_term_match_propagates(left, o, right) ==
    IF right.ok
    THEN parse_term_fold(left, token_to_binary_op(o.node), right)
    ELSE right

\* the match on parse_factor's result right, after the operator token o
parse_term_match(left, o, right) ==
    IF right.ok
    THEN parse_term_fold(left, token_to_binary_op(o.node), right)
    ELSE POk(left, right.p)

\* o is the result of expect_operator
parse_term_operator(left, o) ==
    IF ~o.ok THEN PErr(o.err, o.p)
    ELSE parse_term_match(left, o, parse_factor(o.p))

\* the while loop of parse_term, with the expression built so far
parse_term_loop(p, left) ==
    IF p.current_token.type \in {"Plus", "Minus"}
    THEN parse_term_operator(left, expect_operator(p))
    ELSE POk(left, p)

\* s is the result of expect_token(Semi)
parse_assignment_semi(ident_token, expr, s) ==
    IF ~s.ok THEN PErr(s.err, s.p)
    ELSE POk(Assignment(ident_token.node.name, expr.node), s.p)

\* expr is the result of parse_expression
parse_assignment_expr(ident_token, expr) ==
    IF ~expr.ok THEN expr
    ELSE parse_assignment_semi(ident_token, expr,
                               expect_token(expr.p, Tok("Semi")))

\* a is the result of expect_token(Assign)
parse_assignment_assign(ident_token, a) ==
    IF ~a.ok THEN PErr(a.err, a.p)
    ELSE parse_assignment_expr(ident_token, parse_expression(a.p))

\* ident_token is the result of expect_identifier_token
parse_assignment_ident(ident_token) ==
    IF ~ident_token.ok THEN ident_token
    ELSE parse_assignment_assign(ident_token,
                                 expect_token(ident_token.p, Tok("Assign")))

parse_assignment(p) == parse_assignment_ident(expect_identifier_token(p))

parse_statement(p) == parse_assignment(p)

RECURSIVE parse_program_loop(_, _)

\* parse_program's loop, had it returned the statements parsed so far when
\* a statement fails
parse_program_push_keeps(program_vec, s) ==
    IF ~s.ok THEN POk(Program(program_vec), s.p)
    ELSE parse_program_loop(s.p, Append(program_vec, s.node))

\* s is the result of parse_statement
parse_program_push(program_vec, s) ==
    IF ~s.ok THEN s
    ELSE parse_program_loop(s.p, Append(program_vec, s.node))

parse_program_loop(p, program_vec) ==
    IF p.current_token # Tok("EoF")
    THEN parse_program_push(program_vec, parse_statement(p))
    ELSE POk(Program(program_vec), p)

parse_program(p) == parse_program_loop(p, <<>>)

\* ------------------------------------------------------------------------
\* Symbol table
\* ------------------------------------------------------------------------
\* a scope is a function from the names declared in it to their symbols
HashMap_new == [n \in {} |-> 0]

contains_key(scope, name) == name \in DOMAIN scope

insert(scope, name, v) ==
    [n \in (DOMAIN scope) \cup {name} |-> IF n = name THEN v ELSE scope[n]]

Symbol(name, symbol_type, scope_level) ==
    [name |-> name, symbol_type |-> symbol_type, scope_level |-> scope_level]

NoSymbol == [name |-> <<>>, symbol_type |-> "None", scope_level |-> 0]

SymbolTable_new == [scopes |-> <<HashMap_new>>, current_scope |-> 0]

\* scopes[i] with the 0-based index of the code
ScopeAt(st, i) == st.scopes[i + 1]

RECURSIVE PushScopes(_, _)
PushScopes(scopes, current_scope) ==
    IF Len(scopes) <= current_scope
    THEN PushScopes(Append(scopes, HashMap_new), current_scope)
    ELSE scopes

enter_scope(st) ==
    [scopes |-> PushScopes(st.scopes, st.current_scope + 1),
     current_scope |-> st.current_scope + 1]

\* exit_scope's loop, had it popped nothing
PopScopes_nothing(scopes, current_scope) == scopes

RECURSIVE PopScopes(_, _)
PopScopes(scopes, current_scope) ==
    IF Len(scopes) > current_scope
    THEN PopScopes(SubSeq(scopes, 1, Len(scopes) - 1), current_scope)
    ELSE scopes

\* exit_scope without its guard on current_scope == 0
exit_scope_unguarded(st) ==
    [fault |-> FALSE,
     st |-> [scopes |-> SubSeq(st.scopes, 1, st.current_scope),
             current_scope |-> IF st.current_scope = 0 THEN 0
                               ELSE st.current_scope - 1]]

\* fault: the panic on current_scope == 0, which leaves the table as it was
exit_scope(st) ==
    IF st.current_scope = 0
    THEN [fault |-> TRUE, st |-> st]
    ELSE [fault |-> FALSE,
          st |-> [scopes |-> PopScopes(st.scopes, st.current_scope),
                  current_scope |-> st.current_scope - 1]]

declare_variable(st, name, var_type) ==
    LET scope == ScopeAt(st, st.current_scope)
    IN  IF contains_key(scope, name)
        THEN [ok |-> FALSE, st |-> st]
        ELSE [ok |-> TRUE,
              st |-> [st EXCEPT !.scopes[st.current_scope + 1] =
                          insert(scope, name,
                                 Symbol(name, var_type, st.current_scope))]]

RECURSIVE LookupLevel(_, _, _)
LookupLevel(st, name, current_level) ==
    IF ~contains_key(ScopeAt(st, current_level), name) /\ current_level > 0
    THEN LookupLevel(st, name, current_level - 1)
    ELSE current_level

\* Some(symbol), or NoSymbol for None
lookup_variable(st, name) ==
    LET level == LookupLevel(st, name, st.current_scope)
    IN  IF contains_key(ScopeAt(st, level), name)
        THEN ScopeAt(st, level)[name]
        ELSE NoSymbol

\* ------------------------------------------------------------------------
\* Semantic analyzer
\* ------------------------------------------------------------------------
SemanticError(message, error_type) ==
    [message |-> message, error_type |-> error_type]

SemanticAnalyzer_new ==
    [symbol_table |-> SymbolTable_new, errors |-> <<>>, fault |-> FALSE]

add_error(a, message, error_type) ==
    [a EXCEPT !.errors = Append(a.errors, SemanticError(message, error_type))]

\* get_expression_type, had it taken every declared identifier for an
\* Integer
get_expression_type_all_integer(a, node) ==
    CASE node.t = "Number" -> "Integer"
      [] node.t = "Identifier" ->
            IF lookup_variable(a.symbol_table, node.name) = NoSymbol
            THEN "None" ELSE "Integer"
      [] node.t = "BinaryOp" -> "Integer"
      [] OTHER -> "None"

\* Some(type) as the type's name, None as "None"
get_expression_type(a, node) ==
    CASE node.t = "Number" -> "Integer"
      [] node.t = "Identifier" ->
            lookup_variable(a.symbol_table, node.name).symbol_type
      [] node.t = "BinaryOp" -> "Integer"
      [] OTHER -> "None"

RECURSIVE analyzer_visit_node(_, _), analyzer_visit_all(_, _, _)

\* the for loop over the statements; a panic ends the traversal
analyzer_visit_all(a, statements, i) ==
    IF i > Len(statements) \/ a.fault THEN a
    ELSE analyzer_visit_all(analyzer_visit_node(a, statements[i]),
                            statements, i + 1)

\* the message of a diagnostic is represented by the part of it that varies:
\* the variable's name, or the two operands of a mismatch
analyzer_visit_node(a, node) ==
    CASE node.t = "Program" -> analyzer_visit_all(a, node.stmts, 1)
      [] node.t = "Assignment" ->
            LET var_type == get_expression_type(a, node.value)
                d == declare_variable(a.symbol_table, node.variable, var_type)
            IN  IF var_type = "None" THEN [a EXCEPT !.fault = TRUE]
                ELSE IF ~d.ok
                     THEN add_error(a, node.variable, "DuplicateDeclaration")
                     ELSE [a EXCEPT !.symbol_table = d.st]
      [] node.t = "BinaryOp" ->
            LET a1 == analyzer_visit_node(a, node.left)
                a2 == IF a1.fault THEN a1
                      ELSE analyzer_visit_node(a1, node.right)
            IN  IF a2.fault THEN a2
                ELSE IF get_expression_type(a2, node.left)
                        # get_expression_type(a2, node.right)
                     THEN add_error(a2, <<node.left, node.right>>,
                                    "TypeMismatch")
                     ELSE a2
      [] node.t = "Identifier" ->
            IF lookup_variable(a.symbol_table, node.name) = NoSymbol
            THEN add_error(a, node.name, "UndefinedVariable")
            ELSE a
      [] node.t = "Number" -> a

\* result: "Ok", "Err" with the diagnostics, or "panic"; a is the analyzer
\* after the call (mem::take leaves its error list empty)
analyze(a, ast) ==
    LET b == analyzer_visit_node(a, ast)
    IN  IF b.fault THEN [result |-> "panic", errors |-> <<>>, a |-> b]
        ELSE IF b.errors = <<>>
             THEN [result |-> "Ok", errors |-> <<>>, a |-> b]
             ELSE [result |-> "Err", errors |-> b.errors,
                   a |-> [b EXCEPT !.errors = <<>>]]

\* ------------------------------------------------------------------------
\* Bytecode compiler
\* ------------------------------------------------------------------------
Instr(op) == [op |-> op]
LoadConstant(v) == [op |-> "LoadConstant", v |-> v]
LoadVariable(name) == [op |-> "LoadVariable", name |-> name]
StoreVariable(name) == [op |-> "StoreVariable", name |-> name]

binary_op_to_instruction(op) ==
    CASE op = "Add" -> Instr("Add")
      [] op = "Subtract" -> Instr("Subtract")
      [] op = "Multiply" -> Instr("Multiply")
      [] op = "Divide" -> Instr("Divide")

RECURSIVE interpreter_visit_node(_, _), interpreter_visit_all(_, _, _)

\* the for loop over the statements, had it merged the assignments to one
\* name: a statement is skipped when a later one assigns the same variable
RECURSIVE interpreter_visit_all_merging(_, _, _)
interpreter_visit_all_merging(instructions, program, i) ==
    IF i > Len(program) THEN instructions
    ELSE IF \E j \in (i + 1)..Len(program) :
               /\ program[i].t = "Assignment"
               /\ program[j].t = "Assignment"
               /\ program[j].variable = program[i].variable
    THEN interpreter_visit_all_merging(instructions, program, i + 1)
    ELSE interpreter_visit_all_merging(
             interpreter_visit_node(instructions, program[i]), program, i + 1)

\* the for loop of the Program arm over the statements
interpreter_visit_all(instructions, program, i) ==
    IF i > Len(program) THEN instructions
    ELSE interpreter_visit_all(
             interpreter_visit_node(instructions, program[i]), program, i + 1)

\* visit_node, had its BinaryOp arm pushed the operator between the two
\* operands
interpreter_visit_node_infix(instructions, node) ==
    CASE node.t = "Number" -> Append(instructions, LoadConstant(node.v))
      [] node.t = "Identifier" -> Append(instructions, LoadVariable(node.name))
      [] node.t = "BinaryOp" ->
            interpreter_visit_node(
                Append(interpreter_visit_node(instructions, node.left),
                       binary_op_to_instruction(node.op)),
                node.right)
      [] node.t = "Assignment" ->
            Append(interpreter_visit_node(instructions, node.value),
                   StoreVariable(node.variable))
      [] node.t = "Program" -> interpreter_visit_all(instructions, node.stmts, 1)

\* the instruction list after visiting node
interpreter_visit_node(instructions, node) ==
    CASE node.t = "Number" -> Append(instructions, LoadConstant(node.v))
      [] node.t = "Identifier" -> Append(instructions, LoadVariable(node.name))
      [] node.t = "BinaryOp" ->
            Append(interpreter_visit_node(
                       interpreter_visit_node(instructions, node.left),
                       node.right),
                   binary_op_to_instruction(node.op))
      [] node.t = "Assignment" ->
            Append(interpreter_visit_node(instructions, node.value),
                   StoreVariable(node.variable))
      [] node.t = "Program" -> interpreter_visit_all(instructions, node.stmts, 1)

\* generate_instructions without its clear(): the instructions of the earlier
\* call stay in front of the new ones
generate_instructions_keeps(instructions, program) ==
    Append(interpreter_visit_node(instructions, program), Instr("Stop"))

\* self.instructions after the call, which is also the value returned;
\* instructions is self.instructions before the call, which clear() empties
generate_instructions(instructions, program) ==
    Append(interpreter_visit_node(<<>>, program), Instr("Stop"))

\* ------------------------------------------------------------------------
\* Virtual machine
\* ------------------------------------------------------------------------
VM_new(instructions, symbol_table) ==
    [instructions |-> instructions, symbol_table |-> symbol_table,
     storage |-> HashMap_new, program_counter |-> 0, stack |-> <<>>]

Top(stack) == stack[Len(stack)]
Pop(stack) == SubSeq(stack, 1, Len(stack) - 1)
Push(stack, v) == Append(stack, v)

\* pop_two, had it returned the two values in the other order
pop_two_swapped(stack) ==
    IF Len(stack) >= 2
    THEN [fault |-> FALSE, n1 |-> stack[Len(stack) - 1],
          n2 |-> stack[Len(stack)],
          stack |-> SubSeq(stack, 1, Len(stack) - 2)]
    ELSE [fault |-> TRUE, n1 |-> F(0), n2 |-> F(0), stack |-> <<>>]

\* n1 is popped first (the top), n2 second; fault when either is missing
pop_two(stack) ==
    IF Len(stack) >= 2
    THEN [fault |-> FALSE, n1 |-> stack[Len(stack)],
          n2 |-> stack[Len(stack) - 1],
          stack |-> SubSeq(stack, 1, Len(stack) - 2)]
    ELSE [fault |-> TRUE, n1 |-> F(0), n2 |-> F(0), stack |-> <<>>]

\* execute's first lines, had they left the store as the earlier run left it
execute_reset_keeps_storage(vm) ==
    [vm EXCEPT !.program_counter = 0, !.stack = <<>>]

\* the first lines of execute: storage.clear(), program_counter = 0 and an
\* empty stack
execute_reset(vm) ==
    [vm EXCEPT !.storage = HashMap_new, !.program_counter = 0, !.stack = <<>>]

VOk(vm) == [fault |-> "", vm |-> vm]
VPanic(msg, vm) == [fault |-> msg, vm |-> vm]

\* the test of Instruction::Divide that panics with "Cannot divide by zero!"
DivideFaults(n1, n2) == IsZero(n2)

\* one call: the VM after it, and the panic message when it panicked
evaluate_next_instruction(vm) ==
    LET instruction == vm.instructions[vm.program_counter + 1]
        p == pop_two(vm.stack)
        popped == [vm EXCEPT !.stack = p.stack]
    IN  IF vm.program_counter >= Len(vm.instructions) THEN VOk(vm)
        ELSE CASE instruction.op = "LoadConstant" ->
                    VOk([vm EXCEPT !.stack = Push(vm.stack, instruction.v)])
               [] instruction.op = "LoadVariable" ->
                    IF lookup_variable(vm.symbol_table, instruction.name)
                       = NoSymbol
                    THEN VPanic("Variable not in scope!", vm)
                    ELSE IF contains_key(vm.storage, instruction.name)
                    THEN VOk([vm EXCEPT !.stack =
                                Push(vm.stack, vm.storage[instruction.name])])
                    ELSE VPanic("Variable was in scope, but not in storage!",
                                vm)
               [] instruction.op = "StoreVariable" ->
                    IF Len(vm.stack) > 0
                    THEN VOk([vm EXCEPT
                                !.storage = insert(vm.storage, instruction.name,
                                                   Top(vm.stack)),
                                !.stack = Pop(vm.stack)])
                    ELSE VPanic("Stack is empty, cannot store variable", vm)
               [] instruction.op = "Add" ->
                    IF p.fault THEN VPanic("Unable to pop two from stack!", popped)
                    ELSE VOk([vm EXCEPT !.stack = Push(p.stack, FAdd(p.n2, p.n1))])
               [] instruction.op = "Subtract" ->
                    IF p.fault THEN VPanic("Unable to pop two from stack!", popped)
                    ELSE VOk([vm EXCEPT !.stack = Push(p.stack, FSub(p.n2, p.n1))])
               [] instruction.op = "Multiply" ->
                    IF p.fault THEN VPanic("Unable to pop two from stack!", popped)
                    ELSE VOk([vm EXCEPT !.stack = Push(p.stack, FMul(p.n2, p.n1))])
               [] instruction.op = "Divide" ->
                    IF p.fault THEN VPanic("Unable to pop two from stack!", popped)
                    ELSE IF DivideFaults(p.n1, p.n2)
                    THEN VPanic("Cannot divide by zero!", popped)
                    ELSE VOk([vm EXCEPT !.stack = Push(p.stack, FDiv(p.n2, p.n1))])
               [] instruction.op = "Stop" -> VOk(vm)

\* ------------------------------------------------------------------------
\* Source texts
\* ------------------------------------------------------------------------
DigitChar(i) == CHOOSE c \in Digits : DigitVal(c) = i

GenNames == {<<"x">>, <<"y">>}
OpChars == {"+", "-", "*", "/"}

\* operands: the literals 0..MaxNum and the names x, y
LeafTexts == {<<DigitChar(i)>> : i \in 0..MaxNum} \cup GenNames

ExprTexts ==
    LeafTexts \cup {l \o <<o>> \o r : l \in LeafTexts, o \in OpChars, r \in LeafTexts}

StmtTexts == {n \o <<"=">> \o e \o <<";">> : n \in GenNames, e \in ExprTexts}

\* every program of at most k statements, each "name = operand [op operand];"
RECURSIVE ProgTexts(_)
ProgTexts(k) ==
    IF k = 0 THEN {<<>>}
    ELSE LET shorter == ProgTexts(k - 1)
         IN  shorter \cup {q \o st : q \in shorter, st \in StmtTexts}

\* "x = a op1 b op2 c;" and "x = a op1 (b op2 c);"
ChainTexts ==
    {<<"x", "=">> \o a \o <<o1>> \o b \o <<o2>> \o c \o <<";">> :
        a \in LeafTexts, o1 \in OpChars, b \in LeafTexts, o2 \in OpChars,
        c \in LeafTexts}

ParenTexts ==
    {<<"x", "=">> \o a \o <<o1, "(">> \o b \o <<o2>> \o c \o <<")", ";">> :
        a \in LeafTexts, o1 \in OpChars, b \in LeafTexts, o2 \in OpChars,
        c \in LeafTexts}

\* "x = 1 / 0;"
TextDivZero == <<"x", " ", "=", " ", "1", " ", "/", " ", "0", ";">>

\* "x = (10 + 5 * 2) / 4;\ny = x + 10;\nz = y - y / 5;"
TextEndToEnd ==
    <<"x", " ", "=", " ", "(", "1", "0", " ", "+", " ", "5", " ", "*", " ",
      "2", ")", " ", "/", " ", "4", ";", "\n",
      "y", " ", "=", " ", "x", " ", "+", " ", "1", "0", ";", "\n",
      "z", " ", "=", " ", "y", " ", "-", " ", "y", " ", "/", " ", "5", ";">>

\* "x = 10 - 5 - 2;"
TextLeftAssoc ==
    <<"x", " ", "=", " ", "1", "0", " ", "-", " ", "5", " ", "-", " ", "2", ";">>

\* "x = 10 + 5 * 2;"
TextAstCreation ==
    <<"x", " ", "=", " ", "1", "0", " ", "+", " ", "5", " ", "*", " ", "2", ";">>

\* "x = 2 + 3 * 4;"
TextPrecedence ==
    <<"x", " ", "=", " ", "2", " ", "+", " ", "3", " ", "*", " ", "4", ";">>

\* "x = (2 + 3) * 4;"
TextParens ==
    <<"x", " ", "=", " ", "(", "2", " ", "+", " ", "3", ")", " ", "*", " ",
      "4", ";">>

\* "x = 1; x = 2; y = x;"
TextDuplicate ==
    <<"x", " ", "=", " ", "1", ";", " ", "x", " ", "=", " ", "2", ";", " ",
      "y", " ", "=", " ", "x", ";">>

\* "x = 0 / 5;"
TextZeroDividend == <<"x", " ", "=", " ", "0", " ", "/", " ", "5", ";">>

ExtraTexts ==
    {TextDivZero, TextEndToEnd, TextLeftAssoc, TextAstCreation, TextPrecedence,
     TextParens, TextDuplicate, TextZeroDividend}

Inputs == ProgTexts(MaxStmts) \cup ChainTexts \cup ParenTexts \cup ExtraTexts

\* ------------------------------------------------------------------------
\* The pipeline: lex and parse, analyze, compile, execute
\* ------------------------------------------------------------------------
VARIABLES
    input,          \* the source text
    phase,          \* how far the pipeline has got
    ast,            \* the Program returned by parse_program
    parse_err,      \* the error returned by parse_program
    analyzer,       \* the SemanticAnalyzer
    analysis,       \* what analyze returned: its result and diagnostics
    instructions,   \* what generate_instructions returned
    vm,             \* the VM
    vm_fault,       \* the message of the panic that ended execute
    returned,       \* the store returned by execute
    table,          \* a SymbolTable driven through its own operations
    table_fault,    \* whether the last call on table panicked
    call,           \* the last call on table, with its arguments and result
    found,          \* what the last lookup_variable on table returned
    lexer,          \* a Lexer driven through next_token by its caller
    tokens,         \* the tokens that next_token has returned, in order
    lex_fault,      \* whether the last next_token call panicked
    reruns          \* how many more times execute was called on the same VM

pipeline == <<input, phase, ast, parse_err, analyzer, analysis, instructions,
              vm, vm_fault, returned>>
tables == <<table, table_fault, call, found>>
lexing == <<lexer, tokens, lex_fault>>
vars == <<input, phase, ast, parse_err, analyzer, analysis, instructions,
          vm, vm_fault, returned, table, table_fault, call, found,
          lexer, tokens, lex_fault, reruns>>

NoAnalysis == [result |-> "none", errors |-> <<>>]

PipelineInit ==
    /\ phase = "start"
    /\ ast = NoNode
    /\ parse_err = ""
    /\ analyzer = SemanticAnalyzer_new
    /\ analysis = NoAnalysis
    /\ instructions = <<>>
    /\ vm = VM_new(<<>>, SymbolTable_new)
    /\ vm_fault = ""
    /\ returned = HashMap_new
    /\ reruns = 0

Call(op, name, var_type, ok) ==
    [op |-> op, name |-> name, var_type |-> var_type, ok |-> ok]

TableInit ==
    /\ table = SymbolTable_new
    /\ table_fault = FALSE
    /\ call = Call("new", <<>>, "None", TRUE)
    /\ found = NoSymbol

\* Lexer::new(input), before any call of next_token
LexInit ==
    /\ lexer = Lexer_new(input)
    /\ tokens = <<>>
    /\ lex_fault = FALSE

Init ==
    /\ input \in Inputs
    /\ PipelineInit
    /\ TableInit
    /\ LexInit

\* the driver's phase after parse_program returned r
AfterParse(r) ==
    IF r.p.fault THEN "parse_panic"
    ELSE IF r.ok THEN "parsed" ELSE "parse_error"

ParseResult(r) == [phase |-> AfterParse(r), node |-> r.node, err |-> r.err]

\* Parser::new(Lexer::new(input)).parse_program()
ParseProgram ==
    /\ phase = "start"
    /\ LET r == ParseResult(parse_program(Parser_new(Lexer_new(input))))
       IN  /\ phase' = r.phase
           /\ ast' = r.node
           /\ parse_err' = r.err
    /\ UNCHANGED <<input, analyzer, analysis, instructions, vm, vm_fault,
                   returned, tables, lexing, reruns>>

\* SemanticAnalyzer::new().analyze(&ast)
Analyze ==
    /\ phase = "parsed"
    /\ LET r == analyze(analyzer, ast)
       IN  /\ analyzer' = r.a
           /\ analysis' = [result |-> r.result, errors |-> r.errors]
           /\ phase' = IF r.result = "panic" THEN "analyze_panic"
                       ELSE "analyzed"
    /\ UNCHANGED <<input, ast, parse_err, instructions, vm, vm_fault,
                   returned, tables, lexing, reruns>>

\* Interpreter::new().generate_instructions(&ast)
GenerateInstructions ==
    /\ phase = "analyzed"
    /\ instructions' = generate_instructions(<<>>, ast)
    /\ phase' = "compiled"
    /\ UNCHANGED <<input, ast, parse_err, analyzer, analysis, vm, vm_fault,
                   returned, tables, lexing, reruns>>

\* VM::new(instructions, analyzer.symbol_table)
NewVM ==
    /\ phase = "compiled"
    /\ vm' = VM_new(instructions, analyzer.symbol_table)
    /\ phase' = "ready"
    /\ UNCHANGED <<input, ast, parse_err, analyzer, analysis, instructions,
                   vm_fault, returned, tables, lexing, reruns>>

\* execute: the reset of the runtime state before the loop
ExecuteBegin ==
    /\ phase = "ready"
    /\ vm' = execute_reset(vm)
    /\ phase' = "running"
    /\ UNCHANGED <<input, ast, parse_err, analyzer, analysis, instructions,
                   vm_fault, returned, tables, lexing, reruns>>

\* execute: one turn of the loop
ExecuteStep ==
    /\ phase = "running"
    /\ vm.program_counter < Len(vm.instructions)
    /\ LET r == evaluate_next_instruction(vm)
       IN  IF r.fault # ""
           THEN /\ vm' = r.vm
                /\ vm_fault' = r.fault
                /\ phase' = "vm_panic"
           ELSE /\ vm' = [r.vm EXCEPT !.program_counter = @ + 1]
                /\ UNCHANGED <<vm_fault, phase>>
    /\ UNCHANGED <<input, ast, parse_err, analyzer, analysis, instructions,
                   returned, tables, lexing, reruns>>

\* execute: the loop is over, the store is returned
ExecuteReturn ==
    /\ phase = "running"
    /\ vm.program_counter >= Len(vm.instructions)
    /\ returned' = vm.storage
    /\ phase' = "done"
    /\ UNCHANGED <<input, ast, parse_err, analyzer, analysis, instructions,
                   vm, vm_fault, tables, lexing, reruns>>

Next ==
    \/ ParseProgram
    \/ Analyze
    \/ GenerateInstructions
    \/ NewVM
    \/ ExecuteBegin
    \/ ExecuteStep
    \/ ExecuteReturn

Spec == Init /\ [][Next]_vars

\* The pipeline on the one-statement programs whose expression holds two
\* operators, and on the example texts
ExprInit ==
    /\ input \in ChainTexts \cup ParenTexts \cup ExtraTexts
    /\ PipelineInit
    /\ TableInit
    /\ LexInit

ExprSpec == ExprInit /\ [][Next]_vars

\* ------------------------------------------------------------------------
\* Trees built by the caller, compiled and run
\* ------------------------------------------------------------------------
\* the numbers 1..MaxNum
NumLeaves == {Number(F(i)) : i \in 1..MaxNum}

\* the expression trees with n operators over the given leaves and operators
RECURSIVE TreesOfSize(_, _, _)
TreesOfSize(leaves, ops, n) ==
    IF n = 0 THEN leaves
    ELSE UNION {{BinaryOp(l, o, r) :
                    l \in TreesOfSize(leaves, ops, k), o \in ops,
                    r \in TreesOfSize(leaves, ops, n - 1 - k)} :
                k \in 0..(n - 1)}

\* the trees of numbers under Add, Subtract and Multiply
ExprTrees ==
    UNION {TreesOfSize(NumLeaves, {"Add", "Subtract", "Multiply"}, n) :
              n \in 0..MaxOps}

\* the values of the statements of a built program
ValueNodes == NumLeaves \cup {Identifier(<<"x">>)}

StmtNodes == {Assignment(n, v) : n \in GenNames, v \in ValueNodes}

RECURSIVE StmtSeqs(_)
StmtSeqs(k) ==
    IF k = 0 THEN {<<>>}
    ELSE LET shorter == StmtSeqs(k - 1)
         IN  shorter \cup {Append(q, st) : q \in shorter, st \in StmtNodes}

Programs == {Program(q) : q \in StmtSeqs(MaxStmts)}

\* expressions with at most one operator, over all four operators
SmallExprs ==
    NumLeaves \cup {BinaryOp(l, o, r) :
                       l \in NumLeaves,
                       o \in {"Add", "Subtract", "Multiply", "Divide"},
                       r \in NumLeaves}

\* the nodes handed to generate_instructions: programs, single assignments
\* and bare expressions
Asts ==
    Programs
      \cup {Assignment(n, v) : n \in GenNames, v \in SmallExprs}
      \cup SmallExprs

\* the caller builds one of nodes instead of parsing a text
Build(nodes) ==
    /\ phase = "start"
    /\ \E node \in nodes : ast' = node
    /\ phase' = "parsed"
    /\ UNCHANGED <<input, parse_err, analyzer, analysis, instructions, vm,
                   vm_fault, returned, tables, lexing, reruns>>

BuildAst == Build(Asts)

BuildTree == Build(ExprTrees)

\* a further generate_instructions call on the same Interpreter
GenerateAgain ==
    /\ phase = "compiled"
    /\ \E node \in Asts :
          /\ ast' = node
          /\ instructions' = generate_instructions(instructions, node)
    /\ UNCHANGED <<input, phase, parse_err, analyzer, analysis, vm, vm_fault,
                   returned, tables, lexing, reruns>>

\* a further execute call on the same VM, after the earlier one returned
ExecuteAgain ==
    /\ phase = "done"
    /\ reruns < MaxRuns
    /\ vm' = execute_reset(vm)
    /\ phase' = "running"
    /\ reruns' = reruns + 1
    /\ UNCHANGED <<input, ast, parse_err, analyzer, analysis, instructions,
                   vm_fault, returned, tables, lexing>>

BuiltInit ==
    /\ input = <<>>
    /\ PipelineInit
    /\ TableInit
    /\ LexInit

CompileNext ==
    \/ BuildAst
    \/ Analyze
    \/ GenerateInstructions
    \/ GenerateAgain
    \/ NewVM
    \/ ExecuteBegin
    \/ ExecuteStep
    \/ ExecuteReturn
    \/ ExecuteAgain

CompileSpec == BuiltInit /\ [][CompileNext]_vars

TreeNext ==
    \/ BuildTree
    \/ Analyze
    \/ GenerateInstructions
    \/ NewVM
    \/ ExecuteBegin
    \/ ExecuteStep
    \/ ExecuteReturn

TreeSpec == BuiltInit /\ [][TreeNext]_vars

\* ------------------------------------------------------------------------
\* The pipeline on malformed texts
\* ------------------------------------------------------------------------
\* "x=a op ;", "x=a op1 b op2 ;" and "x=a op (b;": the operand after the last
\* operator is missing or malformed
TruncatedTexts ==
    {<<"x", "=">> \o a \o <<o, ";">> : a \in LeafTexts, o \in OpChars}
      \cup {<<"x", "=">> \o a \o <<o1>> \o b \o <<o2, ";">> :
               a \in LeafTexts, o1 \in OpChars, b \in LeafTexts, o2 \in OpChars}
      \cup {<<"x", "=">> \o a \o <<o, "(">> \o b \o <<";">> :
               a \in LeafTexts, o \in OpChars, b \in LeafTexts}

\* "x=a op1 op2 b;"
DoubleOpTexts ==
    {<<"x", "=">> \o a \o <<o1, o2>> \o b \o <<";">> :
        a \in LeafTexts, o1 \in OpChars, o2 \in OpChars, b \in LeafTexts}

\* "x = 1 + ;"
TextRecovered == <<"x", " ", "=", " ", "1", " ", "+", " ", ";">>

\* the statements parsed before the malformed one: none, "y=1;", "y=1;x=2;"
Prefixes ==
    {<<>>, <<"y", "=", "1", ";">>,
     <<"y", "=", "1", ";", "x", "=", "2", ";">>}

\* no token that starts an expression after "x=": ";", "(;", "();", ")", "=1;"
NoOperandTexts ==
    {<<"x", "=">> \o s :
        s \in {<<";">>, <<"(", ";">>, <<"(", ")", ";">>, <<")">>,
               <<"=", "1", ";">>}}

\* no ';' after the expression: end of text, "y=1;", "(", ")", "="
NoSemiTexts ==
    {<<"x", "=">> \o a \o s :
        a \in LeafTexts,
        s \in {<<>>, <<" ", "y", "=", "1", ";">>, <<"(">>, <<")">>, <<"=">>}}

\* no identifier at the start of the statement: "=1;", "1=1;", "+=1;", ...
NoIdentTexts ==
    {s \o <<"=", "1", ";">> : s \in {<<>>, <<"1">>, <<"+">>, <<"(">>, <<";">>}}

\* no '=' after the identifier: "x;", "x 1;", "x+1;", "x"
NoAssignTexts ==
    {<<"x">> \o s :
        s \in {<<";">>, <<" ", "1", ";">>, <<"+", "1", ";">>, <<>>}}

HardErrorTexts ==
    {pre \o s : pre \in Prefixes,
                s \in NoOperandTexts \cup NoSemiTexts \cup NoIdentTexts
                        \cup NoAssignTexts}

ErrTexts ==
    TruncatedTexts \cup DoubleOpTexts \cup {TextRecovered} \cup HardErrorTexts

ErrInit ==
    /\ input \in ErrTexts
    /\ PipelineInit
    /\ TableInit
    /\ LexInit

ErrSpec == ErrInit /\ [][Next]_vars

\* ------------------------------------------------------------------------
\* The pipeline on every shape of program that parse_program returns
\* ------------------------------------------------------------------------
\* "y=a;x=y op b;" and "x=a;x=(x op b) op x;"
TwoStmtTexts ==
    {<<"y", "=">> \o a \o <<";", "x", "=", "y", o>> \o b \o <<";">> :
        a \in LeafTexts, o \in OpChars, b \in LeafTexts}
      \cup {<<"x", "=">> \o a \o <<";", "x", "=", "(", "x", o1>> \o b
               \o <<")", o2, "x", ";">> :
               a \in LeafTexts, o1 \in OpChars, b \in LeafTexts,
               o2 \in OpChars}

\* one statement with two operators, with and without parentheses, the
\* example texts, two statements, and the texts whose expression is cut
\* short by a missing operand
BalanceTexts ==
    ChainTexts \cup ParenTexts \cup ExtraTexts \cup TwoStmtTexts
      \cup TruncatedTexts \cup DoubleOpTexts

BalanceInit ==
    /\ input \in BalanceTexts
    /\ PipelineInit
    /\ TableInit
    /\ LexInit

BalanceSpec == BalanceInit /\ [][Next]_vars

\* ------------------------------------------------------------------------
\* The lexer under repeated next_token calls
\* ------------------------------------------------------------------------
\* a digit, a second digit, the decimal point, a letter, the underscore, a
\* blank, a punctuation character and a character the lexer does not know
LexChars == {"1", "2", ".", "x", "_", " ", "+", "@"}

RECURSIVE TextsOver(_, _)
TextsOver(chars, k) ==
    IF k = 0 THEN {<<>>}
    ELSE LET shorter == TextsOver(chars, k - 1)
         IN  shorter \cup {Append(q, c) : q \in shorter, c \in chars}

\* "x = 42 + 3.14 * (_4f - .4) / g;"
TextTokenization ==
    <<"x", " ", "=", " ", "4", "2", " ", "+", " ", "3", ".", "1", "4", " ",
      "*", " ", "(", "_", "4", "f", " ", "-", " ", ".", "4", ")", " ", "/",
      " ", "g", ";">>

\* "1.2.3"
TextTwoPoints == <<"1", ".", "2", ".", "3">>

\* ".4"
TextLeadingPoint == <<".", "4">>

\* "4."
TextTrailingPoint == <<"4", ".">>

LexTexts ==
    TextsOver(LexChars, MaxLen)
      \cup {TextTokenization, TextTwoPoints, TextLeadingPoint,
            TextTrailingPoint}

LexSpecInit ==
    /\ input \in LexTexts
    /\ PipelineInit
    /\ TableInit
    /\ LexInit

\* tokens.push(lexer.next_token())
NextToken ==
    /\ ~lex_fault
    /\ Len(tokens) < Len(input) + 1 + MaxExtraCalls
    /\ LET r == next_token(lexer)
       IN  /\ lexer' = r.lx
           /\ lex_fault' = r.fault
           /\ tokens' = IF r.fault THEN tokens ELSE Append(tokens, r.tok)
    /\ UNCHANGED <<pipeline, tables, reruns>>

LexNext == NextToken

LexSpec == LexSpecInit /\ [][LexNext]_vars

\* ------------------------------------------------------------------------
\* The lexer and the pipeline on texts with a character the lexer does not know
\* ------------------------------------------------------------------------
UnknownChars == {"@", "#"}

\* "x = 1; @ y = 2;"
TextUnknownChar ==
    <<"x", " ", "=", " ", "1", ";", " ", "@", " ", "y", " ", "=", " ", "2",
      ";">>

\* the texts of at most MaxLen characters that hold a '@'
UnknownLexTexts ==
    {t \in TextsOver(LexChars, MaxLen) : \E i \in DOMAIN t : t[i] = "@"}

\* a statement with a '@' before it, inside it or after it
UnknownStmtTexts ==
    UNION {{SubSeq(st, 1, i) \o <<"@">> \o SubSeq(st, i + 1, Len(st)) :
               i \in 0..Len(st)} : st \in StmtTexts}

\* statements, an unknown character, and the text that follows it
UnknownProgTexts ==
    {pre \o <<u>> \o rest :
        pre \in Prefixes, u \in UnknownChars,
        rest \in {<<>>, <<"y", "=", "2", ";">>, <<" ", "x", "=", "2", ";">>,
                  <<"+", "1", ";">>}}

UnknownTexts ==
    UnknownLexTexts \cup UnknownStmtTexts \cup UnknownProgTexts
      \cup {TextUnknownChar}

UnknownInit ==
    /\ input \in UnknownTexts
    /\ PipelineInit
    /\ TableInit
    /\ LexInit

UnknownNext == NextToken \/ Next

UnknownSpec == UnknownInit /\ [][UnknownNext]_vars

\* ------------------------------------------------------------------------
\* The symbol table under arbitrary calls of its public operations
\* ------------------------------------------------------------------------
Types == {"Integer", "Function"}

TableSpecInit ==
    /\ input = <<>>
    /\ PipelineInit
    /\ TableInit
    /\ LexInit

EnterScope ==
    /\ ~table_fault
    /\ table.current_scope < MaxScope
    /\ table' = enter_scope(table)
    /\ call' = Call("enter_scope", <<>>, "None", TRUE)
    /\ UNCHANGED <<table_fault, found, pipeline, lexing, reruns>>

\* at current_scope 0 the call panics
ExitScope ==
    /\ ~table_fault
    /\ LET r == exit_scope(table)
       IN  /\ table' = r.st
           /\ table_fault' = r.fault
           /\ call' = Call("exit_scope", <<>>, "None", ~r.fault)
    /\ UNCHANGED <<found, pipeline, lexing, reruns>>

DeclareVariable ==
    /\ ~table_fault
    /\ \E name \in GenNames, var_type \in Types :
          LET r == declare_variable(table, name, var_type)
          IN  /\ table' = r.st
              /\ call' = Call("declare_variable", name, var_type, r.ok)
    /\ UNCHANGED <<table_fault, found, pipeline, lexing, reruns>>

LookupVariable ==
    /\ ~table_fault
    /\ \E name \in GenNames :
          /\ found' = lookup_variable(table, name)
          /\ call' = Call("lookup_variable", name, "None",
                          lookup_variable(table, name) # NoSymbol)
    /\ UNCHANGED <<table, table_fault, pipeline, lexing, reruns>>

TableNext ==
    \/ EnterScope
    \/ ExitScope
    \/ DeclareVariable
    \/ LookupVariable

TableSpec == TableSpecInit /\ [][TableNext]_vars

\* ------------------------------------------------------------------------
\* The analyzer on a symbol table that its caller has filled
\* ------------------------------------------------------------------------
\* a BinaryOp of two identifiers, or an assignment of an identifier
TypedNodes ==
    {BinaryOp(Identifier(l), o, Identifier(r)) :
        l \in GenNames, o \in {"Add", "Subtract", "Multiply", "Divide"},
        r \in GenNames}
      \cup {Assignment(n, Identifier(m)) :
               n \in GenNames \cup {<<"z">>}, m \in GenNames}

\* analyzer.symbol_table.declare_variable(name, var_type)
DeclareInAnalyzer ==
    /\ phase = "start"
    /\ \E name \in GenNames, var_type \in Types :
          analyzer' = [analyzer EXCEPT !.symbol_table =
                          declare_variable(analyzer.symbol_table, name,
                                           var_type).st]
    /\ UNCHANGED <<input, phase, ast, parse_err, analysis, instructions, vm,
                   vm_fault, returned, tables, lexing, reruns>>

\* analyzer.symbol_table.enter_scope()
EnterScopeInAnalyzer ==
    /\ phase = "start"
    /\ analyzer.symbol_table.current_scope < MaxScope
    /\ analyzer' = [analyzer EXCEPT !.symbol_table =
                       enter_scope(analyzer.symbol_table)]
    /\ UNCHANGED <<input, phase, ast, parse_err, analysis, instructions, vm,
                   vm_fault, returned, tables, lexing, reruns>>

\* analyzer.analyze(&node) on a node that the caller has built
AnalyzeNode ==
    /\ phase = "start"
    /\ \E node \in TypedNodes :
          LET r == analyze(analyzer, node)
          IN  /\ ast' = node
              /\ analyzer' = r.a
              /\ analysis' = [result |-> r.result, errors |-> r.errors]
              /\ phase' = IF r.result = "panic" THEN "analyze_panic"
                          ELSE "analyzed"
    /\ UNCHANGED <<input, parse_err, instructions, vm, vm_fault, returned,
                   tables, lexing, reruns>>

AnalyzerNext ==
    \/ DeclareInAnalyzer
    \/ EnterScopeInAnalyzer
    \/ AnalyzeNode

AnalyzerSpec == BuiltInit /\ [][AnalyzerNext]_vars

\* ------------------------------------------------------------------------
\* Properties of the pipeline
\* ------------------------------------------------------------------------
NextInstruction == vm.instructions[vm.program_counter + 1]

\* execute is about to run a Divide whose right-hand operand (the top) is 0.0
DivideByZeroPending ==
    /\ phase = "running"
    /\ vm.program_counter < Len(vm.instructions)
    /\ NextInstruction.op = "Divide"
    /\ Len(vm.stack) >= 2
    /\ IsZero(Top(vm.stack))

\* C1: a Divide whose right-hand operand (top of the stack) is 0.0 makes
\* execute fault: nothing is pushed and nothing is stored, so "x = 1 / 0;"
\* never stores a value under x.
C1_DivideByZeroFaults ==
    [][DivideByZeroPending =>
          /\ phase' = "vm_panic"
          /\ vm'.storage = vm.storage
          /\ Len(vm'.stack) < Len(vm.stack)]_vars

\* the names read by an expression, in traversal order
RECURSIVE Reads(_)
Reads(node) ==
    CASE node.t = "Identifier" -> <<node.name>>
      [] node.t = "BinaryOp" -> Reads(node.left) \o Reads(node.right)
      [] OTHER -> <<>>

Range(f) == {f[i] : i \in DOMAIN f}

\* the names assigned by the statements before statement i
AssignedBefore(program, i) == {program.stmts[j].variable : j \in 1..(i - 1)}

\* the references to a name that no earlier statement assigned
UndefinedReads(program) ==
    UNION {Range(Reads(program.stmts[i].value)) \ AssignedBefore(program, i) :
              i \in DOMAIN program.stmts}

Analyzed == phase \notin {"start", "parse_error", "parse_panic", "parsed"}

\* C2: a reference to an identifier that no earlier statement assigned,
\* wherever it sits in an expression, makes analyze return Err with an
\* UndefinedVariable diagnostic for that name.
C2_UndefinedReported ==
    Analyzed =>
        \A name \in UndefinedReads(ast) :
            /\ analysis.result = "Err"
            /\ \E i \in DOMAIN analysis.errors :
                  analysis.errors[i] = SemanticError(name, "UndefinedVariable")

\* C3: analyze never faults: for every parsed program it runs to the end and
\* returns Ok or the list of diagnostics.
C3_AnalysisCompletes ==
    /\ phase # "analyze_panic"
    /\ Analyzed => analysis.result \in {"Ok", "Err"}

LoadVariableFaults ==
    {"Variable not in scope!", "Variable was in scope, but not in storage!"}

\* C4: when analyze returned Ok, execution never faults at a LoadVariable,
\* neither for a name absent from the symbol table nor for a name without a
\* stored value.
C4_OkMeansNoVariableFault ==
    (analysis.result = "Ok" /\ phase = "vm_panic") =>
        vm_fault \notin LoadVariableFaults

\* the value of an expression under env, computed on the tree; not ok when it
\* reads a name without a value or divides by zero
RECURSIVE Eval(_, _)
Eval(node, env) ==
    CASE node.t = "Number" -> [ok |-> TRUE, v |-> node.v]
      [] node.t = "Identifier" ->
            IF node.name \in DOMAIN env
            THEN [ok |-> TRUE, v |-> env[node.name]]
            ELSE [ok |-> FALSE, v |-> F(0)]
      [] node.t = "BinaryOp" ->
            LET l == Eval(node.left, env)
                r == Eval(node.right, env)
            IN  IF ~l.ok \/ ~r.ok THEN [ok |-> FALSE, v |-> F(0)]
                ELSE CASE node.op = "Add" -> [ok |-> TRUE, v |-> FAdd(l.v, r.v)]
                       [] node.op = "Subtract" ->
                             [ok |-> TRUE, v |-> FSub(l.v, r.v)]
                       [] node.op = "Multiply" ->
                             [ok |-> TRUE, v |-> FMul(l.v, r.v)]
                       [] node.op = "Divide" ->
                             IF IsZero(r.v) THEN [ok |-> FALSE, v |-> F(0)]
                             ELSE [ok |-> TRUE, v |-> FDiv(l.v, r.v)]

\* the store after statements i.. of stmts, starting from env
RECURSIVE EvalProgram(_, _, _)
EvalProgram(stmts, i, env) ==
    IF i > Len(stmts) THEN [ok |-> TRUE, env |-> env]
    ELSE LET r == Eval(stmts[i].value, env)
         IN  IF ~r.ok THEN [ok |-> FALSE, env |-> env]
             ELSE EvalProgram(stmts, i + 1,
                              insert(env, stmts[i].variable, r.v))

Expected == EvalProgram(ast.stmts, 1, HashMap_new)

Store3(vx, vy, vz) ==
    insert(insert(insert(HashMap_new, <<"x">>, vx), <<"y">>, vy), <<"z">>, vz)

Store1(vx) == insert(HashMap_new, <<"x">>, vx)

Stopped == phase \in {"parse_error", "parse_panic", "analyze_panic", "vm_panic"}

\* C5: a program that only reads variables assigned by earlier statements and
\* never divides by zero runs through the whole pipeline, and execute returns
\* the store that maps each assigned name to the value of its expression;
\* the three-statement example yields exactly x = 5, y = 15, z = 12.
C5_EndToEnd ==
    /\ (Analyzed /\ Expected.ok) =>
          /\ ~Stopped
          /\ phase = "done" => returned = Expected.env
    /\ input = TextEndToEnd =>
          /\ ~Stopped
          /\ phase = "done" => returned = Store3(F(5), F(15), F(12))

\* the same statement for the programs that never divide a zero
RECURSIVE DividesZero(_, _)
DividesZero(node, env) ==
    /\ node.t = "BinaryOp"
    /\ \/ DividesZero(node.left, env)
       \/ DividesZero(node.right, env)
       \/ node.op = "Divide" /\ IsZero(Eval(node.left, env).v)

RECURSIVE AnyDividesZero(_, _, _)
AnyDividesZero(stmts, i, env) ==
    /\ i <= Len(stmts)
    /\ \/ DividesZero(stmts[i].value, env)
       \/ AnyDividesZero(stmts, i + 1,
                         insert(env, stmts[i].variable,
                                Eval(stmts[i].value, env).v))

EndToEndNonZeroDividend ==
    (Analyzed /\ Expected.ok /\ ~AnyDividesZero(ast.stmts, 1, HashMap_new)) =>
          /\ ~Stopped
          /\ phase = "done" => returned = Expected.env

EndToEndDone == input = TextEndToEnd /\ phase = "done"

\* ------------------------------------------------------------------------
\* Associativity and precedence
\* ------------------------------------------------------------------------
\* the node an operand text stands for, and the operator an operator
\* character stands for
LeafNode(a) ==
    IF a \in GenNames THEN Identifier(a) ELSE Number(F(DigitVal(a[1])))

OpOf(o) ==
    CASE o = "+" -> "Add" [] o = "-" -> "Subtract"
      [] o = "*" -> "Multiply" [] o = "/" -> "Divide"

SameTier(o1, o2) == (o1 \in {"+", "-"}) = (o2 \in {"+", "-"})

\* input is "x = a op1 b op2 c;" with one-character operands
IsChain ==
    /\ Len(input) = 8
    /\ <<input[1], input[2], input[8]>> = <<"x", "=", ";">>
    /\ {<<input[3]>>, <<input[5]>>, <<input[7]>>} \subseteq LeafTexts
    /\ {input[4], input[6]} \subseteq OpChars

\* input is "x = a op1 (b op2 c);" with one-character operands
IsParen ==
    /\ Len(input) = 10
    /\ <<input[1], input[2], input[5], input[9], input[10]>>
          = <<"x", "=", "(", ")", ";">>
    /\ {<<input[3]>>, <<input[6]>>, <<input[8]>>} \subseteq LeafTexts
    /\ {input[4], input[7]} \subseteq OpChars

OneStatement(value) == Program(<<Assignment(<<"x">>, value)>>)

LeftNested(a, o1, b, o2, c) ==
    BinaryOp(BinaryOp(LeafNode(<<a>>), OpOf(o1), LeafNode(<<b>>)), OpOf(o2),
             LeafNode(<<c>>))

RightNested(a, o1, b, o2, c) ==
    BinaryOp(LeafNode(<<a>>), OpOf(o1),
             BinaryOp(LeafNode(<<b>>), OpOf(o2), LeafNode(<<c>>)))

Parsed == phase \notin {"start", "parse_error", "parse_panic"}

\* C6: two operators of the same tier associate to the left:
\* "a op1 b op2 c" parses to BinaryOp(BinaryOp(a, op1, b), op2, c), and
\* "x = 10 - 5 - 2;" executes to x = 3.
C6_LeftAssociative ==
    /\ (IsChain /\ SameTier(input[4], input[6]) /\ phase # "start") =>
          /\ Parsed
          /\ ast = OneStatement(LeftNested(input[3], input[4], input[5],
                                           input[6], input[7]))
    /\ input = TextLeftAssoc =>
          /\ ~Stopped
          /\ phase = "done" => returned = Store1(F(3))

LeftAssocDone == input = TextLeftAssoc /\ phase = "done" /\ returned = Store1(F(3))

\* C7: * and / bind tighter than + and -, and a parenthesized expression is a
\* primary: "a + b * c" parses to BinaryOp(a, Add, BinaryOp(b, Multiply, c)),
\* "a * b + c" to BinaryOp(BinaryOp(a, Multiply, b), Add, c), "a op1 (b op2 c)"
\* to BinaryOp(a, op1, BinaryOp(b, op2, c)); "x = 10 + 5 * 2;" parses to
\* Assignment(x, BinaryOp(10, Add, BinaryOp(5, Multiply, 2))),
\* "x = 2 + 3 * 4;" evaluates to 14 and "x = (2 + 3) * 4;" to 20.
C7_Precedence ==
    /\ (IsChain /\ ~SameTier(input[4], input[6]) /\ phase # "start") =>
          /\ Parsed
          /\ ast = OneStatement(
                      IF input[4] \in {"+", "-"}
                      THEN RightNested(input[3], input[4], input[5],
                                       input[6], input[7])
                      ELSE LeftNested(input[3], input[4], input[5],
                                      input[6], input[7]))
    /\ (IsParen /\ phase # "start") =>
          /\ Parsed
          /\ ast = OneStatement(RightNested(input[3], input[4], input[6],
                                            input[7], input[8]))
    /\ (input = TextAstCreation /\ phase # "start") =>
          /\ Parsed
          /\ ast = OneStatement(BinaryOp(Number(F(10)), "Add",
                       BinaryOp(Number(F(5)), "Multiply", Number(F(2)))))
    /\ input \in {TextPrecedence, TextParens} =>
          /\ ~Stopped
          /\ phase = "done" =>
                returned = Store1(IF input = TextPrecedence THEN F(14) ELSE F(20))

PrecedenceDone ==
    /\ input = TextParens
    /\ phase = "done"
    /\ ast = OneStatement(BinaryOp(BinaryOp(Number(F(2)), "Add", Number(F(3))),
                                   "Multiply", Number(F(4))))


\* ------------------------------------------------------------------------
\* Duplicate declarations
\* ------------------------------------------------------------------------
AssignmentsTo(program, name) ==
    {i \in DOMAIN program.stmts : program.stmts[i].variable = name}

\* the names assigned by more than one statement
DuplicateNames(program) ==
    {name \in {program.stmts[i].variable : i \in DOMAIN program.stmts} :
        Cardinality(AssignmentsTo(program, name)) > 1}

Occurrences(errors, e) == Cardinality({i \in DOMAIN errors : errors[i] = e})

\* what C8 says of the analysis of a program that assigns name twice or more
DuplicatesHandled(name) ==
    /\ analysis.result = "Err"
    /\ Occurrences(analysis.errors, SemanticError(name, "DuplicateDeclaration"))
          = Cardinality(AssignmentsTo(ast, name)) - 1
    /\ lookup_variable(analyzer.symbol_table, name) = Symbol(name, "Integer", 0)
    /\ \A i \in DOMAIN ast.stmts :
          lookup_variable(analyzer.symbol_table, ast.stmts[i].variable) # NoSymbol

\* C8: two assignments to the same name make analyze return Err with a
\* DuplicateDeclaration diagnostic naming the variable, exactly one for each
\* repeated assignment; the first declaration's symbol is unchanged and the
\* following statements are still analyzed.
C8_DuplicateReported ==
    Analyzed => \A name \in DuplicateNames(ast) : DuplicatesHandled(name)

\* the same statement for the analyses that did not panic
DuplicateReportedUnlessPanic ==
    (Analyzed /\ phase # "analyze_panic") =>
        \A name \in DuplicateNames(ast) : DuplicatesHandled(name)

\* ------------------------------------------------------------------------
\* Properties of the symbol table
\* ------------------------------------------------------------------------
Max(S) == CHOOSE m \in S : \A n \in S : n <= m

\* the symbol a reference to name resolves to when scopes 0..top are open:
\* the one of the innermost scope that declares it
Visible(st, name, top) ==
    LET levels == {i \in 0..top : name \in DOMAIN st.scopes[i + 1]}
    IN  IF levels = {} THEN NoSymbol ELSE st.scopes[Max(levels) + 1][name]

\* a declaration of a name the current scope does not hold succeeds, also
\* when an outer scope declares the name, and the new symbol is the one found
DeclareShadows ==
    (call'.op = "declare_variable"
        /\ call'.name \notin DOMAIN ScopeAt(table, table.current_scope)) =>
          /\ call'.ok
          /\ table'.current_scope = table.current_scope
          /\ lookup_variable(table', call'.name)
                = Symbol(call'.name, call'.var_type, table.current_scope)
          /\ \A i \in 0..(table.current_scope - 1) :
                ScopeAt(table', i) = ScopeAt(table, i)

\* after exit_scope every name resolves to its outer symbol again
ExitRestores ==
    (call'.op = "exit_scope" /\ call'.ok) =>
        \A name \in GenNames :
            lookup_variable(table', name)
                = Visible(table, name, table.current_scope - 1)

\* a scope that is entered is empty: nothing of an exited scope comes back
EnterIsFresh ==
    call'.op = "enter_scope" =>
        \A name \in GenNames :
            lookup_variable(table', name) = lookup_variable(table, name)

\* C9: declaring in a nested scope a name that an outer scope declares
\* succeeds and lookup_variable then returns the inner symbol; after
\* exit_scope lookup_variable returns the outer symbol again, and a name
\* declared only in the exited scope is not found, also after a later
\* enter_scope.
C9_Shadowing == [][DeclareShadows /\ ExitRestores /\ EnterIsFresh]_vars

\* x is declared as Integer in scope 0 and as Function in scope 1, and
\* lookup_variable(x) has returned the inner symbol
ShadowingSeen ==
    /\ table.current_scope = 1
    /\ <<"x">> \in DOMAIN ScopeAt(table, 0)
    /\ ScopeAt(table, 0)[<<"x">>] = Symbol(<<"x">>, "Integer", 0)
    /\ call = Call("lookup_variable", <<"x">>, "None", TRUE)
    /\ found = Symbol(<<"x">>, "Function", 1)

TableValid ==
    /\ Len(table.scopes) >= 1
    /\ table.current_scope \in 0..(Len(table.scopes) - 1)

\* no call removes scope 0 or a declaration made in it
BaseScopeKept ==
    /\ Len(table'.scopes) >= 1
    /\ \A name \in DOMAIN ScopeAt(table, 0) :
          /\ name \in DOMAIN ScopeAt(table', 0)
          /\ ScopeAt(table', 0)[name] = ScopeAt(table, 0)[name]

ExitAtBaseFaults ==
    (call'.op = "exit_scope" /\ table.current_scope = 0) =>
        table_fault' /\ table' = table

\* C10: after any sequence of calls scope 0 still exists and current_scope
\* is a valid index into the scopes; exit_scope at current_scope 0 faults and
\* removes nothing.
C10_BaseScopeInvariant ==
    /\ []TableValid
    /\ [][BaseScopeKept /\ ExitAtBaseFaults]_vars

\* exit_scope has panicked on a table whose base scope holds a declaration
ExitFaulted ==
    /\ table_fault
    /\ call.op = "exit_scope"
    /\ DOMAIN ScopeAt(table, 0) # {}

\* ------------------------------------------------------------------------
\* Properties of the compiled instructions and of their execution
\* ------------------------------------------------------------------------
Compiled == phase \in {"compiled", "ready", "running", "done", "vm_panic"}

\* the positions of seq that hold an instruction of kind op
Positions(seq, op) == {i \in DOMAIN seq : seq[i].op = op}

\* the number of nodes of a tree that are no Program
RECURSIVE NodeCount(_)
RECURSIVE NodeCountAll(_, _)
NodeCountAll(stmts, i) ==
    IF i > Len(stmts) THEN 0
    ELSE NodeCount(stmts[i]) + NodeCountAll(stmts, i + 1)

NodeCount(node) ==
    CASE node.t = "Program" -> NodeCountAll(node.stmts, 1)
      [] node.t = "Assignment" -> 1 + NodeCount(node.value)
      [] node.t = "BinaryOp" -> 1 + NodeCount(node.left) + NodeCount(node.right)
      [] OTHER -> 1

\* C11: generate_instructions returns a sequence that holds exactly one
\* Stop, as its last element, and one instruction for each node of the AST
\* it was given and nothing else, also when it is called again on the same
\* Interpreter.
C11_ExactlyOneStopLast ==
    Compiled =>
        /\ Positions(instructions, "Stop") = {Len(instructions)}
        /\ Len(instructions) = NodeCount(ast) + 1

\* generate_instructions was called again, on the bare expression 1, after a
\* program that declares x was analyzed and compiled
GeneratedAgain ==
    /\ phase = "compiled"
    /\ ast = Number(F(1))
    /\ instructions = <<LoadConstant(F(1)), Instr("Stop")>>
    /\ lookup_variable(analyzer.symbol_table, <<"x">>) # NoSymbol

\* the names of the StoreVariable instructions of seq, in order
RECURSIVE StoreNames(_, _)
StoreNames(seq, i) ==
    IF i > Len(seq) THEN <<>>
    ELSE IF seq[i].op = "StoreVariable"
         THEN <<seq[i].name>> \o StoreNames(seq, i + 1)
         ELSE StoreNames(seq, i + 1)

\* the variables of the statements of a program, in order
AssignedNames(program) ==
    [i \in 1..Len(program.stmts) |-> program.stmts[i].variable]

\* the compiled sequence holds one StoreVariable for each statement, in
\* statement order
OneStorePerStatement ==
    (Compiled /\ ast.t = "Program") =>
        StoreNames(instructions, 1) = AssignedNames(ast)

\* while execute runs, the stores performed so far are those of the
\* instructions before the program counter
StoresSoFar ==
    phase \in {"running", "done"} =>
        DOMAIN vm.storage =
            {vm.instructions[i].name :
                i \in {j \in Positions(vm.instructions, "StoreVariable") :
                          j <= vm.program_counter}}

\* execute starts at the first instruction with an empty store
RunsFromStart ==
    (phase # "running" /\ phase' = "running") =>
        /\ vm'.program_counter = 0
        /\ vm'.storage = HashMap_new

\* a turn of the loop that does not fault performs the instruction at the
\* program counter, a StoreVariable by writing its name, and moves on by one
PerformsNext ==
    (phase = "running" /\ vm.program_counter < Len(vm.instructions)
        /\ phase' # "vm_panic") =>
          /\ vm'.program_counter = vm.program_counter + 1
          /\ IF NextInstruction.op = "StoreVariable"
             THEN /\ Len(vm.stack) > 0
                  /\ vm'.storage = insert(vm.storage, NextInstruction.name,
                                          Top(vm.stack))
             ELSE vm'.storage = vm.storage

\* execute returns when the program counter has passed the last instruction
RunsToEnd ==
    (phase = "running" /\ phase' = "done") =>
        /\ vm.program_counter = Len(vm.instructions)
        /\ returned' = vm.storage

\* C12: the compiled sequence of a program with n assignment statements
\* holds exactly n StoreVariable instructions, one per statement and in
\* statement order, and an execute call that does not fault performs each of
\* them exactly once, in that order.
C12_OneStorePerAssignment ==
    /\ []OneStorePerStatement
    /\ []StoresSoFar
    /\ [][RunsFromStart /\ PerformsNext /\ RunsToEnd]_vars

\* "x = 1; x = 2;" was compiled to two StoreVariable(x) and run to the end
TwoStoresRun ==
    /\ phase = "done"
    /\ ast = Program(<<Assignment(<<"x">>, Number(F(1))),
                       Assignment(<<"x">>, Number(F(2)))>>)
    /\ StoreNames(vm.instructions, 1) = <<<<"x">>, <<"x">>>>
    /\ returned = Store1(F(2))

\* every execute call starts from an empty store, an empty operand stack and
\* program counter 0, on the instructions the VM was built with
ResetsFirst ==
    (phase \in {"ready", "done"} /\ phase' = "running") =>
        /\ vm'.storage = HashMap_new
        /\ vm'.stack = <<>>
        /\ vm'.program_counter = 0
        /\ vm'.instructions = vm.instructions
        /\ vm'.symbol_table = vm.symbol_table

\* a further execute call returns the store that the earlier one returned
SameStoreAgain ==
    (phase = "running" /\ phase' = "done" /\ reruns > 0) =>
        returned' = returned

\* C13: each execute call first resets the store, the operand stack and the
\* program counter, so every further call on the same VM runs to the end as
\* the first one did and returns the same store.
C13_ReexecutionIdempotent ==
    /\ [](reruns > 0 => phase # "vm_panic")
    /\ [][ResetsFirst /\ SameStoreAgain]_vars

\* execute has returned x = 1, y = 1 for the last of its calls on one VM
ExecutedAgain ==
    /\ phase = "done"
    /\ reruns = MaxRuns
    /\ ast = Program(<<Assignment(<<"x">>, Number(F(1))),
                       Assignment(<<"y">>, Identifier(<<"x">>))>>)
    /\ returned = insert(Store1(F(1)), <<"y">>, F(1))

\* ------------------------------------------------------------------------
\* Properties of the lexer
\* ------------------------------------------------------------------------
EoF == Tok("EoF")

\* EoF is among the first Len(input) + 1 tokens returned
EoFInTime ==
    Len(tokens) >= Len(input) + 1 =>
        \E i \in 1..(Len(input) + 1) : tokens[i] = EoF

\* every token returned after an EoF is EoF
EoFSticks ==
    \A i, j \in DOMAIN tokens : (i < j /\ tokens[i] = EoF) => tokens[j] = EoF

\* a call that returns another token than EoF consumes a character
TokenConsumes ==
    (tokens' # tokens /\ tokens'[Len(tokens')] # EoF) =>
        /\ lexer'.position > lexer.position
        /\ lexer'.position <= Len(input)

\* C14: repeated next_token calls never fault, every token that is not EoF
\* consumes at least one character, so EoF is returned after at most
\* Len(input) + 1 calls, and once EoF has been returned every later call
\* returns EoF again.
C14_EoFReachedAndRepeated ==
    /\ [](~lex_fault /\ EoFInTime /\ EoFSticks)
    /\ [][TokenConsumes]_vars

\* the text of test_lexer_tokenization was lexed to its fifteen tokens and
\* the calls after the EoF returned EoF again
TokenizationDone ==
    /\ input = TextTokenization
    /\ Len(tokens) > 16
    /\ SubSeq(tokens, 1, 15) =
          <<TIdent(<<"x">>), Tok("Assign"), TNumber(F(42)), Tok("Plus"),
            TNumber(Fin(FALSE, 314, 100)), Tok("Multiply"), Tok("LParen"),
            TIdent(<<"_", "4", "f">>), Tok("Minus"),
            TNumber(Fin(FALSE, 4, 10)), Tok("RParen"), Tok("Divide"),
            TIdent(<<"g">>), Tok("Semi"), EoF>>
    /\ tokens[16] = EoF

\* ------------------------------------------------------------------------
\* Properties of the parser on malformed texts
\* ------------------------------------------------------------------------
IsPrefixed(text, body) == \E pre \in Prefixes : text = pre \o body

\* input is "x=a op;"
IsTruncatedOne ==
    /\ Len(input) = 5
    /\ <<input[1], input[2], input[5]>> = <<"x", "=", ";">>
    /\ <<input[3]>> \in LeafTexts
    /\ input[4] \in OpChars

\* input is "x=a op1 b op2;"
IsTruncatedTwo ==
    /\ Len(input) = 7
    /\ <<input[1], input[2], input[7]>> = <<"x", "=", ";">>
    /\ {<<input[3]>>, <<input[5]>>} \subseteq LeafTexts
    /\ {input[4], input[6]} \subseteq OpChars

\* input is "x=a op(b;"
IsTruncatedParen ==
    /\ Len(input) = 7
    /\ <<input[1], input[2], input[5], input[7]>> = <<"x", "=", "(", ";">>
    /\ {<<input[3]>>, <<input[6]>>} \subseteq LeafTexts
    /\ input[4] \in OpChars

\* input is "x=a op1 op2 b;"
IsDoubleOp ==
    /\ Len(input) = 7
    /\ <<input[1], input[2], input[7]>> = <<"x", "=", ";">>
    /\ {<<input[3]>>, <<input[6]>>} \subseteq LeafTexts
    /\ {input[4], input[5]} \subseteq OpChars

ParseDone == phase # "start"

\* C15: when parse_term or parse_factor has parsed an operand and an operator
\* and the following operand fails to parse, the expression built so far is
\* returned as Ok and the error is dropped: "x=a op;" and "x=a op(b;" parse
\* to Assignment(x, a), "x=a op1 b op2;" to Assignment(x, BinaryOp(a, op1, b)),
\* "x = 1 + ;" to the single statement Assignment(x, Number(1)); in
\* "x=a op1 op2 b;" parse_factor returns a for op1 in * / and parse_term goes
\* on with op2 in + -, which gives Assignment(x, BinaryOp(a, op2, b)), and
\* otherwise the error returned is that of the missing ';'.
C15_MidChainRecovery ==
    /\ ((IsTruncatedOne \/ IsTruncatedParen) /\ ParseDone) =>
          /\ Parsed
          /\ ast = OneStatement(LeafNode(<<input[3]>>))
    /\ (IsTruncatedTwo /\ ParseDone) =>
          /\ Parsed
          /\ ast = OneStatement(BinaryOp(LeafNode(<<input[3]>>), OpOf(input[4]),
                                         LeafNode(<<input[5]>>)))
    /\ (input = TextRecovered /\ ParseDone) =>
          /\ Parsed
          /\ ast = OneStatement(Number(F(1)))
    /\ (IsDoubleOp /\ ParseDone) =>
          IF input[4] \in {"*", "/"} /\ input[5] \in {"+", "-"}
          THEN /\ Parsed
               /\ ast = OneStatement(BinaryOp(LeafNode(<<input[3]>>),
                                              OpOf(input[5]),
                                              LeafNode(<<input[6]>>)))
          ELSE /\ phase = "parse_error"
               /\ parse_err = "did not match expected"

\* "x = 1 + ;" was parsed to x = 1 and run to the end
RecoveredRun ==
    /\ input = TextRecovered
    /\ phase = "done"
    /\ ast = OneStatement(Number(F(1)))
    /\ returned = Store1(F(1))

\* the error that parse_program returns for a text of HardErrorTexts
HardError(text) ==
    IF \E s \in NoOperandTexts : IsPrefixed(text, s)
    THEN "neither Number nor Identifier"
    ELSE IF \E s \in NoIdentTexts : IsPrefixed(text, s)
    THEN "expected to be an Identifier"
    ELSE "did not match expected"

\* C16: a failure with no operand parsed yet is a hard error: when no
\* expression can start after '=', when a statement does not start with
\* IDENT '=', or when the ';' is missing, parse_program returns Err with the
\* first error met and no Program, also after statements that parsed.
C16_HardError ==
    (input \in HardErrorTexts /\ ParseDone) =>
        /\ phase = "parse_error"
        /\ ast = NoNode
        /\ parse_err = HardError(input)

\* "y=1;x=2;x=;" was rejected at its third statement
HardErrorReturned ==
    /\ input = <<"y", "=", "1", ";", "x", "=", "2", ";", "x", "=", ";">>
    /\ phase = "parse_error"
    /\ parse_err = "neither Number nor Identifier"
    /\ ast = NoNode

\* ------------------------------------------------------------------------
\* Division
\* ------------------------------------------------------------------------
\* execute is about to run a Divide whose right-hand operand (the top) is
\* not zero
DividePending ==
    /\ phase = "running"
    /\ vm.program_counter < Len(vm.instructions)
    /\ NextInstruction.op = "Divide"
    /\ Len(vm.stack) >= 2
    /\ ~IsZero(Top(vm.stack))

\* the two operands are replaced by lhs / rhs and execute goes on
DividePushesQuotient ==
    /\ phase' = "running"
    /\ vm'.stack = Push(pop_two(vm.stack).stack,
                        FDiv(pop_two(vm.stack).n2, pop_two(vm.stack).n1))

\* C17: a Divide with any left-hand operand, 0 included, and a right-hand
\* operand that is not zero does not fault and pushes lhs / rhs;
\* "x = 0 / 5;" executes to x = 0.
C17_DivideByNonZero ==
    /\ [][DividePending => DividePushesQuotient]_vars
    /\ [](input = TextZeroDividend =>
            /\ ~Stopped
            /\ phase = "done" => returned = Store1(F(0)))

\* the same statement for the left-hand operands that are not zero
DivideOfNonZero ==
    [][(DividePending /\ ~IsZero(pop_two(vm.stack).n2))
          => DividePushesQuotient]_vars

\* ------------------------------------------------------------------------
\* The stack machine against the evaluation of the tree
\* ------------------------------------------------------------------------
\* the value of a tree of numbers, computed on the tree
Value(node) == Eval(node, HashMap_new).v

\* the instructions of a bare expression end with its root operator and Stop
AtRootOperator ==
    /\ phase = "running"
    /\ ast.t = "BinaryOp"
    /\ vm.program_counter = Len(vm.instructions) - 2

\* C18: for every expression tree of numbers under Add, Subtract and
\* Multiply the instructions emitted post-order run without a fault; when the
\* root operator is reached the stack holds the value of the left subtree
\* below the value of the right one, and the run leaves exactly
\* value(left) op value(right) on the stack, so Subtract computes
\* left - right.
C18_StackMachineAgrees ==
    ast \in ExprTrees =>
        /\ phase # "vm_panic"
        /\ AtRootOperator =>
              /\ NextInstruction = binary_op_to_instruction(ast.op)
              /\ vm.stack = <<Value(ast.left), Value(ast.right)>>
        /\ phase = "done" => vm.stack = <<Value(ast)>>

\* 1 - 2 * 2 was compiled and run, and left -3 on the stack
TreeEvaluated ==
    /\ phase = "done"
    /\ ast = BinaryOp(Number(F(1)), "Subtract",
                      BinaryOp(Number(F(2)), "Multiply", Number(F(2))))
    /\ vm.stack = <<F(-3)>>

\* ------------------------------------------------------------------------
\* Numeric literals
\* ------------------------------------------------------------------------
\* the positions of text that hold a '.'
Points(text) == {i \in DOMAIN text : text[i] = "."}

\* the characters that the call consumed for its token, after the whitespace
Consumed ==
    SubSeq(input, skip_whitespace(lexer).position + 1, lexer'.position)

\* the call returned a Number token
ReturnsNumber ==
    /\ tokens' # tokens
    /\ tokens'[Len(tokens')].type = "Number"

\* the literal is a longest run of digits with at most one '.': it ends
\* before a second '.', which is left as the current character, or before a
\* character that is neither a digit nor a '.'
OnePointPerLiteral ==
    ReturnsNumber =>
        /\ Len(Consumed) >= 1
        /\ \A i \in DOMAIN Consumed : Consumed[i] \in Digits \cup {"."}
        /\ Cardinality(Points(Consumed)) <= 1
        /\ lexer'.current_char = Get(input, lexer'.position)
        /\ lexer'.current_char \notin Digits
        /\ lexer'.current_char = "." => Cardinality(Points(Consumed)) = 1

\* after a literal that stopped at a '.', the next call returns a Number
\* that starts at that '.'
NextStartsAtPoint ==
    (tokens' # tokens /\ lexer.current_char = "." /\ tokens # <<>>
        /\ tokens[Len(tokens)].type = "Number") =>
          /\ ReturnsNumber
          /\ Consumed[1] = "."

\* what is returned first for "1.2.3", ".4" and "4."
Lexed(text) ==
    CASE text = TextTwoPoints ->
            <<TNumber(Fin(FALSE, 12, 10)), TNumber(Fin(FALSE, 3, 10)), EoF>>
      [] text = TextLeadingPoint -> <<TNumber(Fin(FALSE, 4, 10)), EoF>>
      [] text = TextTrailingPoint -> <<TNumber(F(4)), EoF>>

\* C19: a numeric literal holds at most one decimal point: read_number stops
\* at a second '.' without consuming it and the next call starts a new
\* numeric token there, so "1.2.3" lexes as Number(1.2), Number(0.3); ".4"
\* and "4." each lex as one Number, 0.4 and 4.0.
C19_OneDecimalPoint ==
    /\ [][OnePointPerLiteral /\ NextStartsAtPoint]_vars
    /\ [](input \in {TextTwoPoints, TextLeadingPoint, TextTrailingPoint} =>
            \A i \in DOMAIN tokens :
                i <= Len(Lexed(input)) => tokens[i] = Lexed(input)[i])

\* "1.2.3" was lexed to Number(1.2), Number(0.3) and EoF
TwoPointsLexed ==
    /\ input = TextTwoPoints
    /\ Len(tokens) >= 3
    /\ SubSeq(tokens, 1, 3) = Lexed(TextTwoPoints)

\* ------------------------------------------------------------------------
\* Types of operands
\* ------------------------------------------------------------------------
\* the declared type of a name before the analysis, "None" when undeclared
DeclaredType(name) == lookup_variable(analyzer.symbol_table, name).symbol_type

\* the step is an analyze call on a node of kind t
Analyzes(t) == phase = "start" /\ phase' # "start" /\ ast'.t = t

\* a BinaryOp of two declared identifiers yields one TypeMismatch diagnostic
\* when their types differ and none when they are equal
MismatchIffTypesDiffer ==
    (Analyzes("BinaryOp")
        /\ DeclaredType(ast'.left.name) # "None"
        /\ DeclaredType(ast'.right.name) # "None") =>
          /\ analyzer'.symbol_table = analyzer.symbol_table
          /\ IF DeclaredType(ast'.left.name) # DeclaredType(ast'.right.name)
             THEN /\ analysis'.result = "Err"
                  /\ Len(analysis'.errors) = 1
                  /\ analysis'.errors[1].error_type = "TypeMismatch"
             ELSE analysis' = [result |-> "Ok", errors |-> <<>>]

\* an assignment of a declared identifier to a name that the current scope
\* does not hold declares the name with the identifier's type
AssignmentTakesType ==
    (Analyzes("Assignment")
        /\ DeclaredType(ast'.value.name) # "None"
        /\ ~contains_key(ScopeAt(analyzer.symbol_table,
                                 analyzer.symbol_table.current_scope),
                         ast'.variable)) =>
          /\ analysis' = [result |-> "Ok", errors |-> <<>>]
          /\ lookup_variable(analyzer'.symbol_table, ast'.variable)
                = Symbol(ast'.variable, DeclaredType(ast'.value.name),
                         analyzer.symbol_table.current_scope)

\* C20: analyzing a BinaryOp whose two operands are declared identifiers
\* records exactly one TypeMismatch diagnostic when their declared types
\* differ and none when they are equal, whichever operator is used; an
\* assignment y = x gives y the declared type of x.
C20_TypeMismatch == [][MismatchIffTypesDiffer /\ AssignmentTakesType]_vars

\* x + y was analyzed with x declared an Integer and y a Function, as in
\* test_semantic_analyzer_type_mismatch
MismatchReported ==
    /\ phase = "analyzed"
    /\ ast = BinaryOp(Identifier(<<"x">>), "Add", Identifier(<<"y">>))
    /\ lookup_variable(analyzer.symbol_table, <<"x">>)
          = Symbol(<<"x">>, "Integer", 0)
    /\ lookup_variable(analyzer.symbol_table, <<"y">>)
          = Symbol(<<"y">>, "Function", 0)
    /\ analysis.result = "Err"
    /\ analysis.errors =
          <<SemanticError(<<Identifier(<<"x">>), Identifier(<<"y">>)>>,
                          "TypeMismatch")>>

\* ------------------------------------------------------------------------
\* Characters that the lexer does not know
\* ------------------------------------------------------------------------
\* c matches none of the arms of next_token but the last
IsUnknown(c) ==
    /\ c # None
    /\ ~is_whitespace(c)
    /\ c \notin PlainChars
    /\ ~is_numeric(c) /\ c # "."
    /\ ~is_alphabetic(c) /\ c # "_"

\* the 0-based index of the first unknown character of text, Len(text) when
\* it has none
FirstUnknown(text) ==
    IF \E i \in DOMAIN text : IsUnknown(text[i])
    THEN (CHOOSE i \in DOMAIN text :
            /\ IsUnknown(text[i])
            /\ \A j \in 1..(i - 1) : ~IsUnknown(text[j])) - 1
    ELSE Len(text)

\* text up to its first unknown character
Cut(text) == SubSeq(text, 1, FirstUnknown(text))

\* the first n tokens that next_token returns from lx
RECURSIVE TokensFrom(_, _)
TokensFrom(lx, n) ==
    IF n = 0 THEN <<>>
    ELSE <<next_token(lx).tok>> \o TokensFrom(next_token(lx).lx, n - 1)

\* the lexer never moves past the first unknown character, and the tokens it
\* has returned are those of the text cut there
NothingLexedAfterUnknown ==
    /\ ~lex_fault
    /\ lexer.position <= FirstUnknown(input)
    /\ tokens = TokensFrom(Lexer_new(Cut(input)), Len(tokens))

\* a call that meets an unknown character after the whitespace returns EoF
\* and leaves the lexer at that character
EoFAtUnknown ==
    (tokens' # tokens /\ IsUnknown(skip_whitespace(lexer).current_char)) =>
        /\ tokens' = Append(tokens, EoF)
        /\ lexer'.position = skip_whitespace(lexer).position
        /\ lexer'.position = FirstUnknown(input)
        /\ lexer'.current_char = skip_whitespace(lexer).current_char

\* parse_program returns for the text what it returns for the text cut at
\* its first unknown character
ParsesAsCut ==
    ParseDone =>
        LET r == ParseResult(parse_program(Parser_new(Lexer_new(Cut(input)))))
        IN  /\ phase # "parse_panic"
            /\ Parsed <=> r.phase = "parsed"
            /\ ast = r.node
            /\ parse_err = r.err

\* C21: text after the first unknown character is never tokenized: at a
\* character that is not whitespace, punctuation, a digit, '.', a letter or
\* '_', next_token returns EoF and stays there, on every later call too, so
\* parse_program returns what it returns for the text before that character;
\* for "x = 1; @ y = 2;" it is Ok with the single statement x = 1 and no
\* error.
C21_UnknownCharEndsInput ==
    /\ [](NothingLexedAfterUnknown /\ EoFSticks /\ ParsesAsCut)
    /\ [][EoFAtUnknown]_vars
    /\ []((input = TextUnknownChar /\ ParseDone) =>
            /\ Parsed
            /\ ast = OneStatement(Number(F(1)))
            /\ parse_err = "")

\* "x = 1; @ y = 2;" was run to the end as x = 1, and its lexer returned EoF
\* twice at the '@'
UnknownCharRun ==
    /\ input = TextUnknownChar
    /\ phase = "done"
    /\ ast = OneStatement(Number(F(1)))
    /\ returned = Store1(F(1))
    /\ Len(tokens) >= 6
    /\ SubSeq(tokens, 1, 6) =
          <<TIdent(<<"x">>), Tok("Assign"), TNumber(F(1)), Tok("Semi"), EoF,
            EoF>>
    /\ lexer.position = 7
    /\ lexer.current_char = "@"

\* ------------------------------------------------------------------------
\* The operand stack
\* ------------------------------------------------------------------------
UnderflowFaults ==
    {"Unable to pop two from stack!", "Stack is empty, cannot store variable"}

Running == phase = "running" /\ vm.program_counter < Len(vm.instructions)

\* the instruction that the loop has just evaluated
LastInstruction == vm.instructions[vm.program_counter]

\* what each instruction needs on the stack
Needs(instruction) ==
    CASE instruction.op \in {"Add", "Subtract", "Multiply", "Divide"} -> 2
      [] instruction.op = "StoreVariable" -> 1
      [] OTHER -> 0

NoUnderflow ==
    /\ vm_fault \notin UnderflowFaults
    /\ Running => Len(vm.stack) >= Needs(NextInstruction)

OneValueBeforeStore ==
    (Running /\ NextInstruction.op = "StoreVariable") => Len(vm.stack) = 1

EmptyAfterStore ==
    (phase = "running" /\ vm.program_counter > 0
        /\ LastInstruction.op = "StoreVariable") => vm.stack = <<>>

EmptyAtStop ==
    /\ (Running /\ NextInstruction.op = "Stop") => vm.stack = <<>>
    /\ phase = "done" => vm.stack = <<>>

\* C22: the operand stack stays balanced: while the instructions compiled
\* from a program that parse_program returned are executed, neither pop_two
\* nor StoreVariable finds too few values, the stack holds exactly one value
\* just before each StoreVariable, and it is empty just after each
\* StoreVariable and when Stop is reached.
C22_StackBalance ==
    NoUnderflow /\ OneValueBeforeStore /\ EmptyAfterStore /\ EmptyAtStop

\* the third StoreVariable of the three-statement example has just run and
\* left the stack empty in front of Stop
ThirdStoreDone ==
    /\ input = TextEndToEnd
    /\ Running
    /\ NextInstruction.op = "Stop"
    /\ LastInstruction = StoreVariable(<<"z">>)
    /\ vm.stack = <<>>
    /\ vm.storage = Store3(F(5), F(15), F(12))

====
